---- MODULE Spec2Model ----
(***************************************************************************)
(* Model of the packer of wasm-utils (src/src/pack.rs): pack_instance      *)
(* takes the serialized runtime module (raw_module) and a parsed deployer  *)
(* (ctor_module), embeds the bytes as a data segment, appends a trampoline *)
(* function and renames the `_create` export to `_call`.                   *)
(*                                                                         *)
(* A module is a record of its sections.  A section is a record            *)
(* [present, entries]; an absent section has present = FALSE.  Indices of  *)
(* the program are 0-based, TLA+ sequences are 1-based: entry n of the     *)
(* program is entries[n + 1] here.                                         *)
(***************************************************************************)
EXTENDS Integers, Sequences, FiniteSets

\* ------------------------------------------------------------- bounds
MaxImports == 1
MaxTypes == 2
MaxFuncs == 2
MaxExports == 2
MaxData == 2
MaxSegLen == 2
MaxOffset == 2
MaxRawLen == 2

\* ------------------------------------------------------- data model
CREATE_SYMBOL == "_create"
CALL_SYMBOL == "_call"

Op(name, a, b) == [op |-> name, a |-> a, b |-> b]
End == Op("End", 0, 0)

Section(es) == [present |-> TRUE, entries |-> es]
Absent == [present |-> FALSE, entries |-> <<>>]
\* section.map(|s| s.entries()).unwrap_or(empty)
EntriesOf(s) == IF s.present THEN s.entries ELSE <<>>

FuncType(ps, r) == [params |-> ps, ret |-> r]
SigI32Void == FuncType(<<"I32">>, "none")
SigVoid == FuncType(<<>>, "none")
SigI64Void == FuncType(<<"I64">>, "none")
SigI32I32 == FuncType(<<"I32">>, "I32")
Sigs == {SigI32Void, SigVoid, SigI64Void, SigI32I32}

InternalFunction(n) == [kind |-> "Function", index |-> n]
InternalGlobal(n) == [kind |-> "Global", index |-> n]
ExportEntry(f, i) == [field |-> f, internal |-> i]

DataSegment(idx, off, val) == [index |-> idx, offset |-> off, value |-> val]

EmptyModule ==
    [types |-> Absent, imports |-> 0, functions |-> Absent,
     exports |-> Absent, code |-> Absent, data |-> Absent]

Ok(v) == [tag |-> "Ok", err |-> "none", value |-> v]
Err(e) == [tag |-> "Err", err |-> e, value |-> 0]
Panic == [tag |-> "Panic", err |-> "none", value |-> 0]

Min(S) == CHOOSE x \in S : \A y \in S : x <= y

\* ------------------------------------------------- pack_instance, step 1
\* Total number of constructor module import functions (imports holds the
\* number of function imports; an absent Import section counts 0).
ctor_import_functions(m) == m.imports

\* entries().iter().find(|entry| CREATE_SYMBOL == entry.field()):
\* the position of the first matching entry, 0 when there is none.
found_entry(es) ==
    LET hits == {i \in 1..Len(es) : es[i].field = CREATE_SYMBOL}
    IN  IF hits = {} THEN 0 ELSE Min(hits)

\* function_index - ctor_import_functions on usize.  With overflow checks
\* (debug profile) an underflow panics; without them (release profile) it
\* wraps.  The wrapped value, cast `as u32` in the trampoline, is
\* 2^32 + (a - b); it is kept as the negative number a - b, its value
\* modulo 2^32, which is never a function index of the module.
usize_sub(a, b, overflow_checks) ==
    IF a >= b THEN Ok(a - b)
    ELSE IF overflow_checks THEN Panic
    ELSE Ok(a - b)

\* The block computing create_func_id: Ok(id), Err(error) or Panic.
create_func_id(m, overflow_checks) ==
    IF ~m.exports.present THEN Err("NoExportSection")
    ELSE
    LET es == m.exports.entries
        at == found_entry(es)
    IN
    IF at = 0 THEN Err("NoCreateSymbol")
    ELSE IF es[at].internal.kind # "Function" THEN Err("InvalidCreateMember")
    ELSE
    LET function_index == es[at].internal.index IN
    IF ~m.functions.present THEN Err("NoCodeSection")
    ELSE IF function_index >= Len(m.functions.entries) THEN Err("MalformedModule")
    ELSE
    LET type_id == m.functions.entries[function_index + 1] IN
    IF ~m.types.present THEN Err("NoTypeSection")
    ELSE IF type_id >= Len(m.types.entries) THEN Err("MalformedModule")
    ELSE
    LET f == m.types.entries[type_id + 1] IN
    IF Len(f.params) # 1 \/ f.params[1] # "I32" THEN Err("InvalidCreateSignature")
    ELSE IF f.ret # "none" THEN Err("InvalidCreateSignature")
    ELSE usize_sub(function_index, ctor_import_functions(m), overflow_checks)

\* Mutant: the import count is left out of the new function's index.
last_function_index_local(m) == Len(EntriesOf(m.functions))

\* If new function is put in ctor module, it will have this callable index.
last_function_index(m) ==
    Len(EntriesOf(m.functions)) + ctor_import_functions(m)

\* ------------------------------------------------- pack_instance, step 2
\* (index, offset) of the new segment, from the last existing one.  The sum
\* is an i32 in the program; the offsets and lengths of the inputs stay far
\* below 2^31, so it never overflows here.
data_placement(entries) ==
    IF entries # <<>> THEN
        LET entry == entries[Len(entries)] IN
        IF entry.offset[1].op = "I32Const" THEN
            LET len == Len(entry.value)
                offst == entry.offset[1].a
            IN  [index |-> entry.index, offset |-> offst + (len + 4) - (len % 4)]
        ELSE [index |-> 0, offset |-> 0]
    ELSE [index |-> 0, offset |-> 0]

\* Mutant: the new segment replaces the last segment instead of following it.
pack_data_overwrite(raw, m) ==
    IF m.data.present THEN
        LET at == data_placement(m.data.entries)
            code_data == DataSegment(at.index,
                                     <<Op("I32Const", at.offset, 0), End>>, raw)
            kept == SubSeq(m.data.entries, 1, Len(m.data.entries) - 1)
        IN  [module |-> [m EXCEPT !.data = Section(Append(kept, code_data))],
             code_data_address |-> at.offset]
    ELSE [module |-> m, code_data_address |-> 0]

\* The loop over sections_mut(): only a Data section that is present is
\* touched; code_data_address stays 0 otherwise.
pack_data(raw, m) ==
    IF m.data.present THEN
        LET at == data_placement(m.data.entries)
            code_data == DataSegment(at.index,
                                     <<Op("I32Const", at.offset, 0), End>>, raw)
        IN  [module |-> [m EXCEPT !.data = Section(Append(m.data.entries, code_data))],
             code_data_address |-> at.offset]
    ELSE [module |-> m, code_data_address |-> 0]

\* ------------------------------------------------- pack_instance, step 3
\* The body handed to the builder.
trampoline(create_id, code_data_address, raw) ==
    << Op("GetLocal", 0, 0),
       Op("Call", create_id, 0),
       Op("GetLocal", 0, 0),
       Op("I32Const", code_data_address, 0),
       Op("I32Store", 0, 8),
       Op("GetLocal", 0, 0),
       Op("I32Const", Len(raw), 0),
       Op("I32Store", 0, 12),
       End >>

\* builder::from_module(m).function().signature()...body()...build().build():
\* a signature is appended to the Type section (or an equal one reused),
\* and one entry is appended to the Function and to the Code section.
builder_function(m, sig, body, reuse) ==
    LET types0 == EntriesOf(m.types)
        same == {i \in 1..Len(types0) : types0[i] = sig}
        shared == reuse /\ same # {}
        types1 == IF shared THEN types0 ELSE Append(types0, sig)
        type_ref == IF shared THEN Min(same) - 1 ELSE Len(types0)
    IN  [m EXCEPT !.types = Section(types1),
                  !.functions = Section(Append(EntriesOf(m.functions), type_ref)),
                  !.code = Section(Append(EntriesOf(m.code), body))]

\* ------------------------------------------------- pack_instance, step 4
\* Mutant: the entry is renamed and its target is left as it was.
rewire_entry_rename_only(entry, target) ==
    IF entry.field = CREATE_SYMBOL
    THEN ExportEntry(CALL_SYMBOL, entry.internal)
    ELSE entry

\* Every export named `_create` becomes `_call` and targets the trampoline.
rewire_entry(entry, target) ==
    IF entry.field = CREATE_SYMBOL
    THEN ExportEntry(CALL_SYMBOL, InternalFunction(target))
    ELSE entry

\* Mutant: the loop stops after the first entry named `_create`.
rewire_exports_first_only(m, target) ==
    IF m.exports.present THEN
        [m EXCEPT !.exports =
            Section([i \in 1..Len(m.exports.entries) |->
                        IF i = found_entry(m.exports.entries)
                        THEN rewire_entry(m.exports.entries[i], target)
                        ELSE m.exports.entries[i]])]
    ELSE m

rewire_exports(m, target) ==
    IF m.exports.present THEN
        [m EXCEPT !.exports =
            Section([i \in 1..Len(m.exports.entries) |->
                        rewire_entry(m.exports.entries[i], target)])]
    ELSE m

\* ----------------------------------------------------------- pack_instance
pack_instance(raw, ctor, overflow_checks, reuse) ==
    LET id == create_func_id(ctor, overflow_checks) IN
    IF id.tag # "Ok" THEN [id EXCEPT !.value = EmptyModule]
    ELSE
    LET last == last_function_index(ctor)
        packed == pack_data(raw, ctor)
        new_module == builder_function(packed.module, SigI32Void,
                          trampoline(id.value, packed.code_data_address, raw),
                          reuse)
    IN  Ok(rewire_exports(new_module, last))

\* --------------------------------------------------------- host runtime
\* The host of the test call_returns_code: it instantiates the packed module
\* (the data segments are copied into linear memory in order), executes the
\* export `_call` with the descriptor address as argument and reads the
\* words at descriptor + 8 and descriptor + 12.
DescriptorAddr == 4 * MaxOffset + MaxSegLen + MaxRawLen + 8
MemSize == DescriptorAddr + 16
ZeroMemory == [x \in 0..(MemSize - 1) |-> 0]

\* LittleEndian encoding of an i32, and LittleEndian::read_u32.
LE32(v) ==
    << v % 256, (v \div 256) % 256, (v \div 65536) % 256, (v \div 16777216) % 256 >>
read_u32(mem, a) ==
    mem[a] + 256 * mem[a + 1] + 65536 * mem[a + 2] + 16777216 * mem[a + 3]

InMemory(a, n) == a >= 0 /\ a + n <= MemSize
store_bytes(mem, a, bytes) ==
    [x \in DOMAIN mem |->
        IF a <= x /\ x < a + Len(bytes) THEN bytes[x - a + 1] ELSE mem[x]]
\* env_memory.get(pointer, len)
memory_get(mem, a, n) == [i \in 1..n |-> mem[a + i - 1]]

\* The value of a segment's offset expression; global 0 holds g.
offset_value(expr, g) == IF expr[1].op = "I32Const" THEN expr[1].a ELSE g

RECURSIVE load_segments(_, _, _, _)
load_segments(mem, segs, i, g) ==
    IF i > Len(segs) THEN [ok |-> TRUE, memory |-> mem]
    ELSE LET at == offset_value(segs[i].offset, g) IN
         IF ~InMemory(at, Len(segs[i].value)) THEN [ok |-> FALSE, memory |-> mem]
         ELSE load_segments(store_bytes(mem, at, segs[i].value), segs, i + 1, g)

\* The signature of the function with combined index n; an imported function
\* is a host function taking the descriptor pointer.
signature_of(m, n) ==
    IF n < m.imports THEN SigI32Void
    ELSE LET type_ref == m.functions.entries[n - m.imports + 1] IN
         IF type_ref < Len(EntriesOf(m.types))
         THEN m.types.entries[type_ref + 1] ELSE SigVoid

IsFunctionIndex(m, n) ==
    n >= 0 /\ n < m.imports + Len(EntriesOf(m.functions))

Drop(stack, n) == SubSeq(stack, 1, Len(stack) - n)
Top(stack, n) == SubSeq(stack, Len(stack) - n + 1, Len(stack))

\* The interpreter on one function body.  A called function is run as an
\* opaque body that returns without touching memory (the bodies of the test
\* are [End]); the call and its arguments are recorded.
RECURSIVE run(_, _, _, _, _, _)
run(m, body, ip, locals, stack, st) ==
    IF ip > Len(body) THEN st
    ELSE
    LET o == body[ip] IN
    CASE o.op = "End" -> st
      [] o.op = "GetLocal" ->
            IF o.a >= Len(locals) THEN [st EXCEPT !.status = "trap"]
            ELSE run(m, body, ip + 1, locals, Append(stack, locals[o.a + 1]), st)
      [] o.op = "I32Const" ->
            run(m, body, ip + 1, locals, Append(stack, o.a), st)
      [] o.op = "Drop" ->
            IF stack = <<>> THEN [st EXCEPT !.status = "trap"]
            ELSE run(m, body, ip + 1, locals, Drop(stack, 1), st)
      [] o.op = "Call" ->
            IF ~IsFunctionIndex(m, o.a) THEN [st EXCEPT !.status = "trap"]
            ELSE
            LET sig == signature_of(m, o.a)
                n == Len(sig.params)
            IN  IF Len(stack) < n THEN [st EXCEPT !.status = "trap"]
                ELSE run(m, body, ip + 1, locals,
                         IF sig.ret = "none" THEN Drop(stack, n)
                         ELSE Append(Drop(stack, n), 0),
                         [st EXCEPT !.calls =
                             Append(@, [func |-> o.a, args |-> Top(stack, n)])])
      [] o.op = "I32Store" ->
            IF Len(stack) < 2 THEN [st EXCEPT !.status = "trap"]
            ELSE
            LET value == stack[Len(stack)]
                addr == stack[Len(stack) - 1] + o.b
            IN  IF ~InMemory(addr, 4) THEN [st EXCEPT !.status = "trap"]
                ELSE run(m, body, ip + 1, locals, Drop(stack, 2),
                         [st EXCEPT !.memory = store_bytes(@, addr, LE32(value))])
      [] OTHER -> [st EXCEPT !.status = "trap"]

\* program.add_module(...) then execute_export(CALL_SYMBOL, [I32(d)]) through
\* export entry `at`.
execute_export(m, at, d, g) ==
    LET loaded == load_segments(ZeroMemory, EntriesOf(m.data), 1, g)
        st0 == [status |-> "ok", memory |-> loaded.memory, calls |-> <<>>, entry |-> 0]
        n == m.exports.entries[at].internal.index
    IN  IF ~loaded.ok \/ ~IsFunctionIndex(m, n) THEN [st0 EXCEPT !.status = "trap"]
        ELSE IF n < m.imports THEN st0
        ELSE IF n - m.imports >= Len(EntriesOf(m.code)) THEN [st0 EXCEPT !.status = "trap"]
        ELSE run(m, m.code.entries[n - m.imports + 1], 1, <<d>>, <<>>, st0)

\* -------------------------------------------------------------- inputs
SeqsUpTo(S, n) == UNION {[1..k -> S] : k \in 0..n}
Sections(S, n) == {Absent} \cup {Section(es) : es \in SeqsUpTo(S, n)}

\* The runtime module's bytes are opaque; n non-zero bytes.
RawBytes(n) == [i \in 1..n |-> i]
RawModules == {RawBytes(n) : n \in 0..MaxRawLen}

\* The body of the locally defined function j of a deployer: it returns
\* without touching memory.
Body(j) == <<Op("I32Const", j, 0), Op("Drop", 0, 0), End>>
CodeFor(functions) ==
    IF functions.present
    THEN Section([j \in 1..Len(functions.entries) |-> Body(j - 1)])
    ELSE Absent

\* `_create` exported as any function index up to one past the last valid
\* one, or as a global; `_call` exported as a function or as a global.
CreateExports ==
    {ExportEntry(CREATE_SYMBOL, InternalFunction(n)) : n \in 0..(MaxImports + MaxFuncs)}
ExportEntries ==
    CreateExports
    \cup {ExportEntry(CREATE_SYMBOL, InternalGlobal(0)),
          ExportEntry(CALL_SYMBOL, InternalFunction(0)),
          ExportEntry(CALL_SYMBOL, InternalGlobal(0))}

OffsetExprs ==
    {<<Op("I32Const", k, 0), End>> : k \in 0..MaxOffset}
    \cup {<<Op("GetGlobal", 0, 0), End>>}
Segments ==
    {DataSegment(0, off, [i \in 1..n |-> 170]) : off \in OffsetExprs, n \in 0..MaxSegLen}

Module(ts, im, fs, ex, da) ==
    [types |-> ts, imports |-> im, functions |-> fs, exports |-> ex,
     code |-> CodeFor(fs), data |-> da]

\* The deployer of the test call_returns_code after the optimizer kept
\* `_create` only: one (i32) -> () function per position, one data segment.
SampleTypes == Section(<<SigI32Void>>)
SampleFunctions == Section([j \in 1..MaxFuncs |-> 0])
SampleData == Section(<<DataSegment(0, <<Op("I32Const", 4 * MaxOffset, 0), End>>, <<170>>)>>)

\* Deployers that vary the index spaces: types, imports, functions and the
\* target of the `_create` export.
IndexDeployers ==
    {Module(ts, im, fs, ex, SampleData) :
        ts \in Sections(Sigs, MaxTypes), im \in 0..MaxImports,
        fs \in Sections(0..MaxTypes, MaxFuncs),
        ex \in {Section(<<e>>) : e \in CreateExports}}

\* Deployers that vary the Export section.
ExportDeployers ==
    {Module(SampleTypes, im, SampleFunctions, Section(es), SampleData) :
        im \in 0..MaxImports, es \in SeqsUpTo(ExportEntries, MaxExports)}

\* Deployers that vary the Data section.
DataDeployers ==
    {Module(SampleTypes, 0, SampleFunctions,
            Section(<<ExportEntry(CREATE_SYMBOL, InternalFunction(0))>>), da) :
        da \in Sections(Segments, MaxData)}

\* ------------------------------------------------------- state machine
VARIABLES
    raw_module,     \* pack_instance's first argument
    ctor_module,    \* pack_instance's second argument, as passed in
    result,         \* what pack_instance returned
    second,         \* what pack_instance returned on its own result
    exec,           \* the host's state after executing `_call`
    pc

vars == <<raw_module, ctor_module, result, second, exec, pc>>

NoResult == [tag |-> "none", err |-> "none", value |-> EmptyModule]
NoExec == [status |-> "none", memory |-> ZeroMemory, calls |-> <<>>, entry |-> 0]

Init ==
    /\ \/ ctor_module \in IndexDeployers /\ raw_module = RawBytes(MaxRawLen)
       \/ ctor_module \in ExportDeployers /\ raw_module = RawBytes(MaxRawLen)
       \/ ctor_module \in DataDeployers /\ raw_module \in RawModules
    /\ result = NoResult
    /\ second = NoResult
    /\ exec = NoExec
    /\ pc = "input"

\* pack_instance(raw_module, ctor_module), in either build profile and with
\* either signature policy of the builder.
PackInstance ==
    /\ pc = "input"
    /\ \E overflow_checks \in BOOLEAN, reuse \in BOOLEAN :
          result' = pack_instance(raw_module, ctor_module, overflow_checks, reuse)
    /\ pc' = "packed"
    /\ UNCHANGED <<raw_module, ctor_module, second, exec>>

\* pack_instance again, on the module the first call returned.
Repack ==
    /\ pc = "packed"
    /\ result.tag = "Ok"
    /\ \E raw \in RawModules, overflow_checks \in BOOLEAN, reuse \in BOOLEAN :
          second' = pack_instance(raw, result.value, overflow_checks, reuse)
    /\ pc' = "repacked"
    /\ UNCHANGED <<raw_module, ctor_module, result, exec>>

\* The host instantiates the packed module and executes a function export
\* named `_call` with the descriptor address.
ExecuteCall ==
    /\ pc = "packed"
    /\ result.tag = "Ok"
    /\ \E at \in 1..Len(EntriesOf(result.value.exports)), g \in {0, MaxOffset} :
          /\ result.value.exports.entries[at].field = CALL_SYMBOL
          /\ result.value.exports.entries[at].internal.kind = "Function"
          /\ exec' = [execute_export(result.value, at, DescriptorAddr, g)
                        EXCEPT !.entry = at]
    /\ pc' = "executed"
    /\ UNCHANGED <<raw_module, ctor_module, result, second>>

Next == PackInstance \/ Repack \/ ExecuteCall

Spec == Init /\ [][Next]_vars

\* -------------------------------------------------------------- claims
Packed == pc # "input"
Accepted == result.tag = "Ok"
out == result.value

Count(es, name) == Cardinality({i \in 1..Len(es) : es[i].field = name})
InExports == EntriesOf(ctor_module.exports)
OutExports == EntriesOf(out.exports)
InData == EntriesOf(ctor_module.data)
OutData == EntriesOf(out.data)
InFunctions == EntriesOf(ctor_module.functions)
OutFunctions == EntriesOf(out.functions)

\* The function the `_create` export points to (combined index), and its
\* position in the Function section.
HasCreateFunction ==
    /\ found_entry(InExports) # 0
    /\ InExports[found_entry(InExports)].internal.kind = "Function"
CreateTarget == InExports[found_entry(InExports)].internal.index
CreateLocal == CreateTarget - ctor_module.imports
CreateIsLocal == CreateLocal >= 0 /\ CreateLocal < Len(InFunctions)
CreateTypeKnown ==
    /\ CreateIsLocal
    /\ InFunctions[CreateLocal + 1] < Len(EntriesOf(ctor_module.types))
CreateSignature == ctor_module.types.entries[InFunctions[CreateLocal + 1] + 1]

\* The function appended by the packer: the last entry of the Code section.
NewBody == out.code.entries[Len(out.code.entries)]
NewSegment == OutData[Len(OutData)]

\* C1: after the packed `_call` (the export that was `_create`) was executed
\* on the loaded module with the descriptor at D, the words at D + 8 and D + 12 are a (pointer, length) pair and the length
\* bytes of linear memory at pointer equal runtime_bytes.
C1_DataRoundtrip ==
    (pc = "executed" /\ exec.status = "ok"
        /\ InExports[exec.entry].field = CREATE_SYMBOL) =>
        LET pointer == read_u32(exec.memory, DescriptorAddr + 8)
            len == read_u32(exec.memory, DescriptorAddr + 12)
        IN  /\ InMemory(pointer, len)
            /\ memory_get(exec.memory, pointer, len) = raw_module

\* C2 as stated: the result of an accepted deployer has exactly one export
\* named `_call`, of function kind, and none named `_create`.
C2_ExactlyOneCall ==
    Accepted =>
        /\ Count(OutExports, CALL_SYMBOL) = 1
        /\ \A i \in 1..Len(OutExports) :
              OutExports[i].field = CALL_SYMBOL => OutExports[i].internal.kind = "Function"
        /\ Count(OutExports, CREATE_SYMBOL) = 0

\* C2 amended: the result of an accepted deployer has no export named
\* `_create`; every entry that was named `_create` is a function export named
\* `_call`; the exports named `_call` are those and the ones the deployer
\* already had, so there is exactly one when the deployer exported `_create`
\* once and `_call` not at all.
C2_CreateBecomesCall ==
    Accepted =>
        /\ Count(OutExports, CREATE_SYMBOL) = 0
        /\ Len(OutExports) = Len(InExports)
        /\ \A i \in 1..Len(InExports) :
              InExports[i].field = CREATE_SYMBOL =>
                  /\ OutExports[i].field = CALL_SYMBOL
                  /\ OutExports[i].internal.kind = "Function"
        /\ Count(OutExports, CALL_SYMBOL) =
              Count(InExports, CALL_SYMBOL) + Count(InExports, CREATE_SYMBOL)
        /\ (Count(InExports, CREATE_SYMBOL) = 1 /\ Count(InExports, CALL_SYMBOL) = 0) =>
              Count(OutExports, CALL_SYMBOL) = 1

\* A deployer exporting `_create` as a function and as a global was packed.
C2_Witness ==
    /\ Accepted
    /\ Count(InExports, CREATE_SYMBOL) = 2
    /\ \E i \in 1..Len(InExports) : InExports[i].internal.kind = "Global"

\* C3: the trampoline's Call targets the combined index of the (locally
\* defined) function the `_create` export pointed to, so executing the packed `_call` calls that
\* function exactly once with the descriptor pointer as its sole argument.
C3_CallsCreate ==
    /\ (Accepted /\ CreateIsLocal) => NewBody[2] = Op("Call", CreateTarget, 0)
    /\ (pc = "executed" /\ exec.status = "ok" /\ CreateIsLocal
            /\ InExports[exec.entry].field = CREATE_SYMBOL) =>
          exec.calls = <<[func |-> CreateTarget, args |-> <<DescriptorAddr>>]>>

\* C4: pack_instance succeeds only if the locally defined function the
\* `_create` export targets has signature (i32) -> (), and returns
\* InvalidCreateSignature whenever that function has another signature.
C4_SignatureChecked ==
    /\ (Accepted /\ CreateTypeKnown) => CreateSignature = SigI32Void
    /\ (Packed /\ HasCreateFunction /\ CreateTypeKnown
            /\ CreateSignature # SigI32Void) =>
          (result.tag = "Err" /\ result.err = "InvalidCreateSignature")

\* C5: with a function-kind `_create` export and a Function and a Type
\* section, an index that denotes no locally defined function, or a
\* signature index outside the Type section, gives MalformedModule: no
\* abort, no module.
C5_MalformedReported ==
    (Packed /\ HasCreateFunction /\ ctor_module.functions.present
        /\ ctor_module.types.present /\ ~CreateTypeKnown) =>
        (result.tag = "Err" /\ result.err = "MalformedModule")

\* C6: the offset chosen for the embedded segment is a multiple of 4 and is
\* strictly greater than offset + length of every pre-existing data segment
\* whose offset expression is an I32Const.
C6_OffsetAlignedPastAll ==
    (Accepted /\ ctor_module.data.present) =>
        /\ NewSegment.offset[1].a % 4 = 0
        /\ \A i \in 1..Len(InData) :
              InData[i].offset[1].op = "I32Const" =>
                  NewSegment.offset[1].a > InData[i].offset[1].a + Len(InData[i].value)

\* C7: when pack_instance succeeded, pack_instance on its result fails with
\* NoCreateSymbol, whatever the runtime bytes.
C7_NotIdempotent ==
    pc = "repacked" => (second.tag = "Err" /\ second.err = "NoCreateSymbol")

\* A deployer with two `_create` exports was packed and packed again.
C7_Witness ==
    /\ pc = "repacked"
    /\ Count(InExports, CREATE_SYMBOL) = 2
    /\ second.err = "NoCreateSymbol"

\* C8: the rewritten `_call` export targets import_function_count + the
\* Function section's length before packing; that is the index of the
\* appended trampoline, a function index of the result, of signature
\* (i32) -> ().
C8_CallTargetsTrampoline ==
    Accepted =>
        LET target == ctor_module.imports + Len(InFunctions) IN
        /\ \A i \in 1..Len(InExports) :
              InExports[i].field = CREATE_SYMBOL =>
                  OutExports[i] = ExportEntry(CALL_SYMBOL, InternalFunction(target))
        /\ out.imports = ctor_module.imports
        /\ Len(OutFunctions) = Len(InFunctions) + 1
        /\ Len(out.code.entries) = Len(OutFunctions)
        /\ target - out.imports + 1 = Len(OutFunctions)
        /\ NewBody[1] = Op("GetLocal", 0, 0) /\ NewBody[2].op = "Call"
        /\ NewBody[5] = Op("I32Store", 0, 8) /\ NewBody[8] = Op("I32Store", 0, 12)
        /\ OutFunctions[Len(OutFunctions)] < Len(out.types.entries)
        /\ signature_of(out, target) = SigI32Void

\* A deployer with an imported function was packed.
C8_Witness ==
    /\ Accepted
    /\ ctor_module.imports > 0
    /\ OutExports[found_entry(InExports)].internal.index = ctor_module.imports + Len(InFunctions)

\* C9: whether the Data section is absent, empty or not, the result holds
\* one appended segment with the runtime bytes at [I32Const(a), End], a being
\* the value the trampoline stores at descriptor + 8 (and the length of the
\* runtime bytes the one stored at descriptor + 12); a = 0 and the memory
\* index is 0 when the section was absent or empty.
C9_SegmentAppended ==
    Accepted =>
        /\ out.data.present
        /\ Len(OutData) = Len(InData) + 1
        /\ NewSegment.value = raw_module
        /\ NewSegment.offset = <<Op("I32Const", NewBody[4].a, 0), End>>
        /\ NewBody[7] = Op("I32Const", Len(raw_module), 0)
        /\ InData = <<>> => (NewBody[4].a = 0 /\ NewSegment.index = 0)

\* C10: a successful pack leaves every export not named `_create`, every
\* pre-existing data segment and every pre-existing Function and Code entry
\* as it was and where it was, and the Function and Code sections are of the
\* same length.
C10_Frame ==
    Accepted =>
        /\ Len(OutExports) = Len(InExports)
        /\ \A i \in 1..Len(InExports) :
              InExports[i].field # CREATE_SYMBOL => OutExports[i] = InExports[i]
        /\ Len(OutData) >= Len(InData)
        /\ \A i \in 1..Len(InData) : OutData[i] = InData[i]
        /\ Len(OutFunctions) = Len(InFunctions) + 1
        /\ \A i \in 1..Len(InFunctions) :
              /\ OutFunctions[i] = InFunctions[i]
              /\ out.code.entries[i] = ctor_module.code.entries[i]
        /\ Len(OutFunctions) = Len(out.code.entries)
        /\ out.imports = ctor_module.imports
        /\ \A i \in 1..Len(EntriesOf(ctor_module.types)) :
              out.types.entries[i] = ctor_module.types.entries[i]

\* A deployer with a `_call` export next to `_create` and with a data segment
\* was packed.
C10_Witness ==
    /\ Accepted
    /\ Count(InExports, CALL_SYMBOL) = 1
    /\ InData # <<>>
    /\ Len(OutData) = Len(InData) + 1

====
